---------------------------- MODULE Spec2Model ----------------------------
(***************************************************************************)
(* A model of the command unicode (src/unicode.go, the revision of lines   *)
(* 278-633).  A string is a sequence of code points, a file is its text.   *)
(* One run of main is the state machine: flag.Parse, mode, getUnicode,     *)
(* the switch that builds the code-point sequence, and the rendering.      *)
(***************************************************************************)
EXTENDS Integers, Sequences, FiniteSets, TLC

VARIABLES
    cmd,        \* the command line: the seven flags as typed, and the arguments
    fs,         \* the file system: whether the database files are found, their text
    doNum, doChar, doText, doDesc, doUnic, doUNIC, doGrep,   \* the flag variables
    printRange, \* set by argsAreNumbers on the first range token
    codes,      \* main's codes
    interp,     \* the arm of main's switch that built codes
    files,      \* getFile's cache
    stdout,     \* what was written to standard output
    stderr,     \* the kind of message written to standard error ("" for none)
    status,     \* the exit status, -1 while the process runs
    pc          \* main's position

vars == <<cmd, fs, doNum, doChar, doText, doDesc, doUnic, doUNIC, doGrep,
          printRange, codes, interp, files, stdout, stderr, status, pc>>

---------------------------------------------------------------------------
(* Characters the code names. *)
ch == [tab |-> 9, nl |-> 10, sp |-> 32, quote |-> 39, plus |-> 43,
       dash |-> 45, dot |-> 46, zero |-> 48, semi |-> 59]

(* "0123456789abcdefABCDEF-", the set of mode's ContainsRune *)
sniffSet == (48..57) \cup (97..102) \cup (65..70) \cup {45}

(* strconv.ParseInt(s, 16, 22): the base and the bit size *)
base == 16
bitSize == 22

RECURSIVE Pow2(_)
Pow2(n) == IF n = 0 THEN 1 ELSE 2 * Pow2(n - 1)

(* strings.Join(a, "") *)
RECURSIVE Join(_)
Join(a) == IF a = <<>> THEN <<>> ELSE Head(a) \o Join(Tail(a))

(* strings.Split(s, sep) for a one-character sep: the text between          *)
(* successive separators, one more field than there are separators, so      *)
(* Split("", sep) is one empty field.                                       *)
Split(s, sep) ==
    LET seps == {i \in 1..Len(s) : s[i] = sep}
        n == Cardinality(seps)
        at(k) == IF k = 0 THEN 0
                 ELSE IF k = n + 1 THEN Len(s) + 1
                 ELSE CHOOSE p \in seps : Cardinality({q \in seps : q <= p}) = k
    IN  [k \in 1..(n + 1) |-> SubSeq(s, at(k - 1) + 1, at(k) - 1)]

(* strings.IndexAny(line, "\t;"), 0-based, -1 when there is none *)
RECURSIVE IndexAnyFrom(_, _, _)
IndexAnyFrom(s, set, i) ==
    IF i > Len(s) THEN -1
    ELSE IF s[i] \in set THEN i - 1
    ELSE IndexAnyFrom(s, set, i + 1)

IndexAny(s, set) == IndexAnyFrom(s, set, 1)

---------------------------------------------------------------------------
(* strconv: the value of a digit, 36 for a character that is none *)
DigitVal(c) ==
    IF c \in 48..57 THEN c - 48
    ELSE IF c \in 97..122 THEN c - 97 + 10
    ELSE IF c \in 65..90 THEN c - 65 + 10
    ELSE 36

(* strconv.ParseUint(s, 16, 22): left to right, the first error ends it *)
RECURSIVE ParseUintFrom(_, _, _)
ParseUintFrom(s, i, n) ==
    IF i > Len(s) THEN [err |-> "", val |-> n]
    ELSE LET d == DigitVal(s[i]) IN
         IF d >= base THEN [err |-> "syntax", val |-> 0]
         ELSE IF n * base + d > Pow2(bitSize) - 1 THEN [err |-> "range", val |-> 0]
         ELSE ParseUintFrom(s, i + 1, n * base + d)

ParseUint(s) ==
    IF s = <<>> THEN [err |-> "syntax", val |-> 0] ELSE ParseUintFrom(s, 1, 0)

(* strconv.ParseInt(s, 16, 22) *)
ParseInt(s) ==
    IF s = <<>> THEN [err |-> "syntax", val |-> 0]
    ELSE LET neg == s[1] = ch.dash
             signed == s[1] \in {ch.plus, ch.dash}
             un == ParseUint(IF signed THEN Tail(s) ELSE s)
             cutoff == Pow2(bitSize - 1)
         IN  IF un.err # "" THEN un
             ELSE IF ~neg /\ un.val >= cutoff THEN [err |-> "range", val |-> 0]
             ELSE IF neg /\ un.val > cutoff THEN [err |-> "range", val |-> 0]
             ELSE [err |-> "", val |-> IF neg THEN 0 - un.val ELSE un.val]

(* parseRune: a parse error is fatal (fatalf, exit status 2) *)
parseRune(s) == ParseInt(s)

---------------------------------------------------------------------------
(* mode: the flags it leaves, or the usage error of an empty argument list *)
RECURSIVE SniffFrom(_, _, _, _)
SniffFrom(s, i, alldigits, numDash) ==
    IF i > Len(s) THEN [alldigits |-> alldigits, numDash |-> numDash]
    ELSE SniffFrom(s, i + 1,
                   alldigits /\ s[i] \in sniffSet,
                   IF s[i] = ch.dash THEN numDash + 1 ELSE numDash)

(* mode as the revision of lines 92-118 has it: a dash in the first         *)
(* argument alone selects characters                                        *)
modeFirstArg(args, n, c, d, u, U, g) ==
    IF Len(args) = 0 THEN [err |-> "usage", doNum |-> n, doChar |-> c]
    ELSE LET n1 == IF g /\ ~(n \/ c \/ d \/ u \/ U) THEN TRUE ELSE n IN
         IF n1 \/ c THEN [err |-> "", doNum |-> n1, doChar |-> c]
         ELSE IF \E i \in 1..Len(args[1]) : args[1][i] = ch.dash
              THEN [err |-> "", doNum |-> n1, doChar |-> TRUE]
         ELSE IF \E i \in 1..Len(Join(args)) : Join(args)[i] \notin sniffSet \ {ch.dash}
              THEN [err |-> "", doNum |-> TRUE, doChar |-> c]
         ELSE [err |-> "", doNum |-> n1, doChar |-> TRUE]

(* mode without its last assignment, *doNum = true *)
modeNoDefault(args, n, c, d, u, U, g) ==
    IF Len(args) = 0 THEN [err |-> "usage", doNum |-> n, doChar |-> c]
    ELSE LET n1 == IF g /\ ~(n \/ c \/ d \/ u \/ U) THEN TRUE ELSE n IN
         IF n1 \/ c THEN [err |-> "", doNum |-> n1, doChar |-> c]
         ELSE LET s == SniffFrom(Join(args), 1, TRUE, 0) IN
              IF s.alldigits /\ s.numDash <= 1
              THEN [err |-> "", doNum |-> n1, doChar |-> TRUE]
              ELSE [err |-> "", doNum |-> n1, doChar |-> c]

mode(args, n, c, d, u, U, g) ==
    IF Len(args) = 0 THEN [err |-> "usage", doNum |-> n, doChar |-> c]
    ELSE LET n1 == IF g /\ ~(n \/ c \/ d \/ u \/ U) THEN TRUE ELSE n IN
         IF n1 \/ c THEN [err |-> "", doNum |-> n1, doChar |-> c]
         ELSE LET s == SniffFrom(Join(args), 1, TRUE, 0) IN
              IF s.alldigits /\ s.numDash <= 1
              THEN [err |-> "", doNum |-> n1, doChar |-> TRUE]
              ELSE [err |-> "", doNum |-> TRUE, doChar |-> c]

---------------------------------------------------------------------------
(* the test  *doText && i < len(flag.Args())-1, and a variant that forgets  *)
(* the last argument                                                        *)
spaceAfterEvery(text, i, n) == text

spaceAfter(text, i, n) == text /\ i < n - 1

(* argsAreChars *)
RECURSIVE argsAreCharsFrom(_, _, _, _)
argsAreCharsFrom(args, text, i, acc) ==
    IF i > Len(args) THEN acc
    ELSE LET withArg == acc \o args[i]
             withSp == IF spaceAfter(text, i - 1, Len(args))
                       THEN Append(withArg, ch.sp) ELSE withArg
         IN  argsAreCharsFrom(args, text, i + 1, withSp)

argsAreChars(args, text) == argsAreCharsFrom(args, text, 1, <<>>)

(* the test  r2 < r1  that ends in usage(), and a variant without it *)
backwardsUnchecked(r1, r2) == FALSE

backwards(r1, r2) == r2 < r1

(* the loop with  r1 < r2  for its test, a variant *)
RECURSIVE appendRangeExclusive(_, _, _)
appendRangeExclusive(acc, r1, r2) ==
    IF r1 < r2 THEN appendRangeExclusive(Append(acc, r1), r1 + 1, r2) ELSE acc

(* the loop  for ; r1 <= r2; r1++ { codes = append(codes, r1) } *)
RECURSIVE appendRange(_, _, _)
appendRange(acc, r1, r2) ==
    IF r1 <= r2 THEN appendRange(Append(acc, r1), r1 + 1, r2) ELSE acc

(* argsAreNumbers: the codes and printRange, or the first fatal error *)
RECURSIVE argsAreNumbersFrom(_, _, _, _)
argsAreNumbersFrom(args, i, acc, pr) ==
    IF i > Len(args) THEN [err |-> "", codes |-> acc, printRange |-> pr]
    ELSE LET s == Split(args[i], ch.dash) IN
         IF Len(s) = 2
         THEN LET r1 == parseRune(s[1])
                  r2 == parseRune(s[2])
              IN  IF r1.err # "" THEN [err |-> r1.err, codes |-> acc, printRange |-> TRUE]
                  ELSE IF r2.err # "" THEN [err |-> r2.err, codes |-> acc, printRange |-> TRUE]
                  ELSE IF backwards(r1.val, r2.val)
                       THEN [err |-> "usage", codes |-> acc, printRange |-> TRUE]
                  ELSE argsAreNumbersFrom(args, i + 1,
                                          appendRange(acc, r1.val, r2.val), TRUE)
         ELSE LET r == parseRune(args[i]) IN
              IF r.err # "" THEN [err |-> r.err, codes |-> acc, printRange |-> pr]
              ELSE argsAreNumbersFrom(args, i + 1, Append(acc, r.val), pr)

argsAreNumbers(args, pr) == argsAreNumbersFrom(args, 1, <<>>, pr)

---------------------------------------------------------------------------
(* regexp, for the patterns the model draws: literal characters, '.', and    *)
(* groups written with parentheses.  Compile fails on unbalanced             *)
(* parentheses; a group without operators matches what its content matches.  *)
paren == [open |-> 40, close |-> 41]

RECURSIVE parenDepth(_, _, _)
parenDepth(a, i, depth) ==
    IF depth < 0 THEN depth
    ELSE IF i > Len(a) THEN depth
    ELSE parenDepth(a, i + 1,
                    IF a[i] = paren.open THEN depth + 1
                    ELSE IF a[i] = paren.close THEN depth - 1 ELSE depth)

RECURSIVE dropParens(_)
dropParens(a) ==
    IF a = <<>> THEN <<>>
    ELSE IF Head(a) \in {paren.open, paren.close} THEN dropParens(Tail(a))
    ELSE <<Head(a)>> \o dropParens(Tail(a))

regexpCompile(a) ==
    IF parenDepth(a, 1, 0) # 0 THEN [err |-> "regexp", re |-> <<>>]
    ELSE [err |-> "", re |-> dropParens(a)]

MatchAt(re, s, pos) ==
    /\ pos + Len(re) - 1 <= Len(s)
    /\ \A k \in 1..Len(re) :
          \/ re[k] = ch.dot /\ s[pos + k - 1] # ch.nl
          \/ re[k] # ch.dot /\ re[k] = s[pos + k - 1]

MatchString(re, s) == \E pos \in 1..(Len(s) + 1) : MatchAt(re, s, pos)

---------------------------------------------------------------------------
(* getFile: the lines of a file, read once and cached in files *)
readLines(text) ==
    LET lines == Split(text, ch.nl) IN
    IF Len(lines) > 0 /\ Len(lines[Len(lines)]) = 0
    THEN SubSeq(lines, 1, Len(lines) - 1) ELSE lines

getFile(cache, disk, file) ==
    IF cache[file].loaded THEN cache[file].lines ELSE readLines(disk[file])

cached(cache, disk, file) ==
    [cache EXCEPT ![file] = [loaded |-> TRUE, lines |-> getFile(cache, disk, file)]]

(* runeOfLine *)
runeOfLine(line) ==
    LET tab == IndexAny(line, {ch.tab, ch.semi}) IN
    IF tab < 0 THEN [err |-> "malformed database", r |-> 0, tab |-> tab]
    ELSE LET r == parseRune(SubSeq(line, 1, tab)) IN
         [err |-> r.err, r |-> r.val, tab |-> tab]

(* codes = append(codes, r), and a variant that keeps a code point once *)
foundOnce(acc, r) ==
    IF \E k \in 1..Len(acc) : acc[k] = r THEN acc ELSE Append(acc, r)

found(acc, r) == Append(acc, r)

(* argsAreRegexps: patterns in argument order, lines in file order *)
RECURSIVE grepLines(_, _, _, _)
grepLines(re, lines, i, acc) ==
    IF i > Len(lines) THEN [err |-> "", codes |-> acc]
    ELSE IF MatchString(re, lines[i])
         THEN LET rl == runeOfLine(lines[i]) IN
              IF rl.err # "" THEN [err |-> rl.err, codes |-> acc]
              ELSE grepLines(re, lines, i + 1, found(acc, rl.r))
         ELSE grepLines(re, lines, i + 1, acc)

RECURSIVE argsAreRegexpsFrom(_, _, _, _)
argsAreRegexpsFrom(args, lines, i, acc) ==
    IF i > Len(args) THEN [err |-> "", codes |-> acc]
    ELSE LET c == regexpCompile(args[i]) IN
         IF c.err # "" THEN [err |-> c.err, codes |-> acc]
         ELSE LET g == grepLines(c.re, lines, 1, acc) IN
              IF g.err # "" THEN g
              ELSE argsAreRegexpsFrom(args, lines, i + 1, g.codes)

argsAreRegexps(args, lines) == argsAreRegexpsFrom(args, lines, 1, <<>>)

---------------------------------------------------------------------------
(* fmt *)
lowerhex == <<48, 49, 50, 51, 52, 53, 54, 55, 56, 57, 97, 98, 99, 100, 101, 102>>
upperhex == <<48, 49, 50, 51, 52, 53, 54, 55, 56, 57, 65, 66, 67, 68, 69, 70>>

RECURSIVE digitsOf(_, _, _)
digitsOf(n, b, digits) ==
    IF n < b THEN <<digits[n + 1]>>
    ELSE Append(digitsOf(n \div b, b, digits), digits[(n % b) + 1])

RECURSIVE zeroPad(_, _)
zeroPad(s, w) == IF Len(s) >= w THEN s ELSE zeroPad(<<ch.zero>> \o s, w)

(* %d *)
fmtD(n) == digitsOf(n, 10, lowerhex)

(* %.4x *)
fmtX4(c) ==
    IF c < 0 THEN <<ch.dash>> \o zeroPad(digitsOf(0 - c, 16, lowerhex), 4)
    ELSE zeroPad(digitsOf(c, 16, lowerhex), 4)

(* utf8: the runes that encode as themselves; %c and string(codes) write     *)
(* U+FFFD for the others                                                     *)
ValidRune(c) == c >= 0 /\ c <= 1114111 /\ ~(c >= 55296 /\ c <= 57343)

fmtC(c) == IF ValidRune(c) THEN <<c>> ELSE <<65533>>

(* strconv.IsPrint, its table for U+0000..U+00FF; above, the assigned code   *)
(* points are taken as printable                                             *)
IsPrint(c) ==
    \/ c >= 32 /\ c <= 126
    \/ c >= 161 /\ c <= 255 /\ c # 173
    \/ c > 255 /\ ValidRune(c)

(* %#U: U+0041 'A', the quoted character only when it is printable; a        *)
(* negative rune is formatted as the 64-bit unsigned value                   *)
fmtSharpU(c) ==
    IF c < 0
    THEN <<85, 43, 70, 70, 70, 70, 70, 70, 70, 70, 70, 70>>
         \o digitsOf(Pow2(24) + c, 16, upperhex)
    ELSE <<85, 43>> \o zeroPad(digitsOf(c, 16, upperhex), 4)
         \o (IF IsPrint(c) THEN <<ch.sp, ch.quote, c, ch.quote>> ELSE <<>>)

---------------------------------------------------------------------------
(* prop, the labels of the 14 fields *)
prop == <<
    <<>>,
    \* "category: "
    <<99, 97, 116, 101, 103, 111, 114, 121, 58, 32>>,
    \* "canonical combining classes: "
    <<99, 97, 110, 111, 110, 105, 99, 97, 108, 32, 99, 111, 109, 98, 105, 110,
      105, 110, 103, 32, 99, 108, 97, 115, 115, 101, 115, 58, 32>>,
    \* "bidirectional category: "
    <<98, 105, 100, 105, 114, 101, 99, 116, 105, 111, 110, 97, 108, 32, 99, 97,
      116, 101, 103, 111, 114, 121, 58, 32>>,
    \* "character decomposition mapping: "
    <<99, 104, 97, 114, 97, 99, 116, 101, 114, 32, 100, 101, 99, 111, 109, 112,
      111, 115, 105, 116, 105, 111, 110, 32, 109, 97, 112, 112, 105, 110, 103,
      58, 32>>,
    \* "decimal digit value: "
    <<100, 101, 99, 105, 109, 97, 108, 32, 100, 105, 103, 105, 116, 32, 118, 97,
      108, 117, 101, 58, 32>>,
    \* "digit value: "
    <<100, 105, 103, 105, 116, 32, 118, 97, 108, 117, 101, 58, 32>>,
    \* "numeric value: "
    <<110, 117, 109, 101, 114, 105, 99, 32, 118, 97, 108, 117, 101, 58, 32>>,
    \* "mirrored: "
    <<109, 105, 114, 114, 111, 114, 101, 100, 58, 32>>,
    \* "Unicode 1.0 name: "
    <<85, 110, 105, 99, 111, 100, 101, 32, 49, 46, 48, 32, 110, 97, 109, 101,
      58, 32>>,
    \* "10646 comment field: "
    <<49, 48, 54, 52, 54, 32, 99, 111, 109, 109, 101, 110, 116, 32, 102, 105,
      101, 108, 100, 58, 32>>,
    \* "uppercase mapping: "
    <<117, 112, 112, 101, 114, 99, 97, 115, 101, 32, 109, 97, 112, 112, 105,
      110, 103, 58, 32>>,
    \* "lowercase mapping: "
    <<108, 111, 119, 101, 114, 99, 97, 115, 101, 32, 109, 97, 112, 112, 105,
      110, 103, 58, 32>>,
    \* "titlecase mapping: "
    <<116, 105, 116, 108, 101, 99, 97, 115, 101, 32, 109, 97, 112, 112, 105,
      110, 103, 58, 32>> >>

(* ": can't print: expected " and " fields, got " *)
cantPrint == <<58, 32, 99, 97, 110, 39, 116, 32, 112, 114, 105, 110, 116, 58,
               32, 101, 120, 112, 101, 99, 116, 101, 100, 32>>
fieldsGot == <<32, 102, 105, 101, 108, 100, 115, 44, 32, 103, 111, 116, 32>>

(* the test  len(fields) != len(prop), and a variant that lets short        *)
(* records through                                                          *)
mismatchLonger(fields) == Len(fields) > Len(prop)

mismatch(fields) == Len(fields) # Len(prop)

(* dumpUnicode *)
RECURSIVE dumpFields(_, _, _)
dumpFields(fields, i, b) ==
    IF i > Len(fields) THEN b
    ELSE IF fields[i] = <<>> THEN dumpFields(fields, i + 1, b)
    ELSE dumpFields(fields, i + 1,
                    b \o (IF i - 1 > 0 THEN <<ch.tab>> ELSE <<>>)
                      \o prop[i] \o fields[i] \o <<ch.nl>>)

dumpUnicode(s) ==
    LET fields == Split(s, ch.semi) IN
    IF Len(fields) = 0 THEN <<ch.nl>>
    ELSE IF mismatch(fields)
         THEN s \o cantPrint \o fmtD(Len(prop)) \o fieldsGot
                \o fmtD(Len(fields)) \o <<ch.nl>>
    ELSE dumpFields(fields, 1, <<>>)

(* l[tab+1:], and a variant that keeps the separator *)
recordWithSep(l, tab) == SubSeq(l, tab + 1, Len(l))

record(l, tab) == SubSeq(l, tab + 2, Len(l))

(* desc: runeData, a later line of a code point replacing an earlier one *)
RECURSIVE runeDataFrom(_, _, _)
runeDataFrom(lines, i, m) ==
    IF i > Len(lines) THEN [err |-> "", runeData |-> m]
    ELSE LET rl == runeOfLine(lines[i]) IN
         IF rl.err # "" THEN [err |-> rl.err, runeData |-> m]
         ELSE runeDataFrom(lines, i + 1,
                           [r \in DOMAIN m \cup {rl.r} |->
                               IF r = rl.r
                               THEN record(lines[i], rl.tab)
                               ELSE m[r]])

(* runeData[r]: the zero value, "", for a rune that has no entry *)
lookup(m, r) == IF r \in DOMAIN m THEN m[r] ELSE <<>>

RECURSIVE descPrint(_, _, _, _, _)
descPrint(cs, m, full, i, out) ==
    IF i > Len(cs) THEN out
    ELSE descPrint(cs, m, full, i + 1,
            out \o fmtSharpU(cs[i]) \o <<ch.sp>>
                \o (IF full THEN dumpUnicode(lookup(m, cs[i]))
                    ELSE lookup(m, cs[i]) \o <<ch.nl>>))

desc(cs, lines, full) ==
    LET rd == runeDataFrom(lines, 1, [r \in {} |-> <<>>]) IN
    IF rd.err # "" THEN [err |-> rd.err, out |-> <<>>]
    ELSE [err |-> "", out |-> descPrint(cs, rd.runeData, full, 1, <<>>)]

(* string(codes) *)
RECURSIVE stringOf(_)
stringOf(cs) == IF cs = <<>> THEN <<>> ELSE fmtC(Head(cs)) \o stringOf(Tail(cs))

(* the test  i%4 == 3  of the range rendering, and  i%4 == 0  as a variant *)
endsLineFirst(i) == i % 4 = 0

endsLine(i) == i % 4 = 3

(* the plain rendering of main, lines 398-417 *)
RECURSIVE plainFrom(_, _, _, _, _, _)
plainFrom(cs, pr, c, n, i, b) ==
    IF i > Len(cs) THEN b
    ELSE plainFrom(cs, pr, c, n, i + 1,
            IF pr THEN b \o fmtX4(cs[i]) \o <<ch.sp>> \o fmtC(cs[i])
                        \o (IF endsLine(i - 1) THEN <<ch.nl>> ELSE <<ch.tab>>)
            ELSE IF c THEN b \o fmtC(cs[i]) \o <<ch.nl>>
            ELSE IF n THEN b \o fmtX4(cs[i]) \o <<ch.nl>>
            ELSE b)

plain(cs, pr, c, n) ==
    LET b == plainFrom(cs, pr, c, n, 1, <<>>) IN
    IF Len(b) > 0 /\ b[Len(b)] # ch.nl THEN Append(b, ch.nl) ELSE b

---------------------------------------------------------------------------
(* main, lines 372-418 *)
exit(code, msg) ==
    /\ status' = code
    /\ stderr' = msg
    /\ pc' = "exit"

(* flag.Parse: the flag variables take what the command line gives *)
FlagParse ==
    /\ pc = "parse"
    /\ doNum' = cmd.n /\ doChar' = cmd.c /\ doText' = cmd.t
    /\ doDesc' = cmd.d /\ doUnic' = cmd.u /\ doUNIC' = cmd.U
    /\ doGrep' = cmd.g
    /\ pc' = "mode"
    /\ UNCHANGED <<cmd, fs, printRange, codes, interp, files, stdout, stderr, status>>

Mode ==
    /\ pc = "mode"
    /\ LET m == mode(cmd.args, doNum, doChar, doDesc, doUnic, doUNIC, doGrep) IN
       IF m.err # ""
       THEN /\ exit(2, m.err)
            /\ UNCHANGED <<doNum, doChar>>
       ELSE /\ doNum' = m.doNum
            /\ doChar' = m.doChar
            /\ pc' = "getUnicode"
            /\ UNCHANGED <<status, stderr>>
    /\ UNCHANGED <<cmd, fs, doText, doDesc, doUnic, doUNIC, doGrep, printRange,
                   codes, interp, files, stdout>>

(* getUnicode: getPath exits with status 1 when a file is nowhere *)
GetUnicode ==
    /\ pc = "getUnicode"
    /\ IF fs.found
       THEN pc' = "codes" /\ UNCHANGED <<status, stderr>>
       ELSE exit(1, "can't find")
    /\ UNCHANGED <<cmd, fs, doNum, doChar, doText, doDesc, doUnic, doUNIC, doGrep,
                   printRange, codes, interp, files, stdout>>

(* the switch of lines 378-385 *)
Interpret ==
    /\ pc = "codes"
    /\ IF doGrep
       THEN LET r == argsAreRegexps(cmd.args, getFile(files, fs, "unicodeTxt")) IN
            /\ interp' = "argsAreRegexps"
            /\ files' = cached(files, fs, "unicodeTxt")
            /\ codes' = r.codes
            /\ IF r.err # "" THEN exit(2, r.err)
               ELSE pc' = "render" /\ UNCHANGED <<status, stderr>>
            /\ UNCHANGED printRange
       ELSE IF doChar
       THEN LET r == argsAreNumbers(cmd.args, printRange) IN
            /\ interp' = "argsAreNumbers"
            /\ printRange' = r.printRange
            /\ codes' = r.codes
            /\ IF r.err # "" THEN exit(2, r.err)
               ELSE pc' = "render" /\ UNCHANGED <<status, stderr>>
            /\ UNCHANGED files
       ELSE IF doNum
       THEN /\ interp' = "argsAreChars"
            /\ codes' = argsAreChars(cmd.args, doText)
            /\ pc' = "render"
            /\ UNCHANGED <<printRange, files, status, stderr>>
       ELSE /\ pc' = "render"
            /\ UNCHANGED <<interp, codes, printRange, files, status, stderr>>
    /\ UNCHANGED <<cmd, fs, doNum, doChar, doText, doDesc, doUnic, doUNIC, doGrep,
                   stdout>>

(* desc(codes, file) and the return that follows it *)
Describe(file) ==
    LET r == desc(codes, getFile(files, fs, file), doUNIC) IN
    /\ files' = cached(files, fs, file)
    /\ IF r.err # ""
       THEN exit(2, r.err) /\ UNCHANGED stdout
       ELSE stdout' = stdout \o r.out /\ exit(0, "")
    /\ UNCHANGED <<cmd, fs, doNum, doChar, doText, doDesc, doUnic, doUNIC, doGrep,
                   printRange, codes, interp>>

DescSimple ==
    /\ pc = "render"
    /\ doDesc
    /\ Describe("unicodeTxt")

DescUnicode ==
    /\ pc = "render"
    /\ ~doDesc
    /\ doUnic \/ doUNIC
    /\ Describe("unicodeDataTxt")

Text ==
    /\ pc = "render"
    /\ ~doDesc /\ ~(doUnic \/ doUNIC)
    /\ doText
    /\ stdout' = stdout \o stringOf(codes) \o <<ch.nl>>
    /\ exit(0, "")
    /\ UNCHANGED <<cmd, fs, doNum, doChar, doText, doDesc, doUnic, doUNIC, doGrep,
                   printRange, codes, interp, files>>

Plain ==
    /\ pc = "render"
    /\ ~doDesc /\ ~(doUnic \/ doUNIC) /\ ~doText
    /\ stdout' = stdout \o plain(codes, printRange, doChar, doNum)
    /\ exit(0, "")
    /\ UNCHANGED <<cmd, fs, doNum, doChar, doText, doDesc, doUnic, doUNIC, doGrep,
                   printRange, codes, interp, files>>

Next ==
    \/ FlagParse
    \/ Mode
    \/ GetUnicode
    \/ Interpret
    \/ DescSimple
    \/ DescUnicode
    \/ Text
    \/ Plain

---------------------------------------------------------------------------
(* The inputs: command lines and database files. *)
MaxArgs == 2
MaxLines == 2

SeqsUpTo(S, n) == UNION {[1..k -> S] : k \in 0..n}

Flags == [n : BOOLEAN, c : BOOLEAN, t : BOOLEAN, d : BOOLEAN, u : BOOLEAN,
          U : BOOLEAN, g : BOOLEAN]

CmdLines(flags, argLists) ==
    {[n |-> f.n, c |-> f.c, t |-> f.t, d |-> f.d, u |-> f.u, U |-> f.U,
      g |-> f.g, args |-> a] : f \in flags, a \in argLists}

(* a file of the lines ls, each ended by a newline, the last one or not *)
RECURSIVE fileText(_, _)
fileText(ls, trailing) ==
    IF ls = <<>> THEN <<>>
    ELSE IF Len(ls) = 1 THEN Head(ls) \o (IF trailing THEN <<ch.nl>> ELSE <<>>)
    ELSE Head(ls) \o <<ch.nl>> \o fileText(Tail(ls), trailing)

Files(pool) ==
    {fileText(ls, TRUE) : ls \in SeqsUpTo(pool, MaxLines)}
    \cup {fileText(ls, FALSE) : ls \in SeqsUpTo(pool, 1)}

(* lines of unicode.txt *)
\* "0041\tlatin capital letter a"
txtA ==
    <<48, 48, 52, 49, 9, 108, 97, 116, 105, 110, 32, 99, 97, 112, 105, 116,
    97, 108, 32, 108, 101, 116, 116, 101, 114, 32, 97>>
\* "0042\tlatin capital letter b"
txtB ==
    <<48, 48, 52, 50, 9, 108, 97, 116, 105, 110, 32, 99, 97, 112, 105, 116,
    97, 108, 32, 108, 101, 116, 116, 101, 114, 32, 98>>
\* "0028\tleft parenthesis; opening parenthesis"
txtParen ==
    <<48, 48, 50, 56, 9, 108, 101, 102, 116, 32, 112, 97, 114, 101, 110,
    116, 104, 101, 115, 105, 115, 59, 32, 111, 112, 101, 110, 105, 110, 103,
    32, 112, 97, 114, 101, 110, 116, 104, 101, 115, 105, 115>>

(* lines of UnicodeData.txt; dataB is cut short, dataBad has no separator *)
\* "0041;LATIN CAPITAL LETTER A;Lu;0;L;;;;;N;;;;0061;"
dataA ==
    <<48, 48, 52, 49, 59, 76, 65, 84, 73, 78, 32, 67, 65, 80, 73, 84, 65,
    76, 32, 76, 69, 84, 84, 69, 82, 32, 65, 59, 76, 117, 59, 48, 59, 76, 59,
    59, 59, 59, 59, 78, 59, 59, 59, 59, 48, 48, 54, 49, 59>>
\* "0028;LEFT PARENTHESIS;Ps;0;ON;;;;;Y;OPENING PARENTHESIS;;;;"
dataParen ==
    <<48, 48, 50, 56, 59, 76, 69, 70, 84, 32, 80, 65, 82, 69, 78, 84, 72,
    69, 83, 73, 83, 59, 80, 115, 59, 48, 59, 79, 78, 59, 59, 59, 59, 59, 89,
    59, 79, 80, 69, 78, 73, 78, 71, 32, 80, 65, 82, 69, 78, 84, 72, 69, 83,
    73, 83, 59, 59, 59, 59>>
\* "0042;LATIN CAPITAL LETTER B;Lu"
dataB ==
    <<48, 48, 52, 50, 59, 76, 65, 84, 73, 78, 32, 67, 65, 80, 73, 84, 65,
    76, 32, 76, 69, 84, 84, 69, 82, 32, 66, 59, 76, 117>>
\* "0043"
dataBad ==
    <<48, 48, 52, 51>>

(* the files of a usual installation *)
stdTxt == fileText(<<txtParen, txtA, txtB>>, TRUE)
stdData == fileText(<<dataParen, dataA>>, TRUE)

InitWith(cmds, disks) ==
    /\ cmd \in cmds
    /\ fs \in disks
    /\ doNum = FALSE /\ doChar = FALSE /\ doText = FALSE /\ doDesc = FALSE
    /\ doUnic = FALSE /\ doUNIC = FALSE /\ doGrep = FALSE
    /\ printRange = FALSE
    /\ codes = <<>>
    /\ interp = "none"
    /\ files = [unicodeTxt |-> [loaded |-> FALSE, lines |-> <<>>],
                unicodeDataTxt |-> [loaded |-> FALSE, lines |-> <<>>]]
    /\ stdout = <<>>
    /\ stderr = ""
    /\ status = -1
    /\ pc = "parse"

stdDisk == [found |-> TRUE, unicodeTxt |-> stdTxt, unicodeDataTxt |-> stdData]
noDisk == [found |-> FALSE, unicodeTxt |-> <<>>, unicodeDataTxt |-> <<>>]

(* arguments for mode's sniffing *)
\* "41"
sniff41 ==
    <<52, 49>>
\* "41-5a"
sniffRange ==
    <<52, 49, 45, 53, 97>>
\* "hello"
sniffHello ==
    <<104, 101, 108, 108, 111>>
\* "1-2-3"
sniffDashes ==
    <<49, 45, 50, 45, 51>>
\* "F-"
sniffUpper ==
    <<70, 45>>
SniffTokens == {sniff41, sniffRange, sniffHello, sniffDashes, sniffUpper}

InitMode ==
    \/ InitWith(CmdLines(Flags, SeqsUpTo(SniffTokens, MaxArgs)), {stdDisk})
    \/ InitWith(CmdLines(Flags, {<<sniff41>>}), {noDisk})
SpecMode == InitMode /\ [][Next]_vars

(* mode has returned: main is past it and it did not end in the usage error *)
ModeReturned == pc \notin {"parse", "mode"} /\ cmd.args # <<>>

(* sniffing is reached: neither -n nor -c is set once the default of -g is in *)
SniffReached ==
    /\ ~cmd.n /\ ~cmd.c
    /\ ~(cmd.g /\ ~(cmd.d \/ cmd.u \/ cmd.U))

(* the characters 0-9, a-f, A-F and '-' *)
HexOrDash(c) ==
    \/ c \in 48..57
    \/ c \in 97..102
    \/ c \in 65..70
    \/ c = 45

(* the places of the arguments that hold a '-' *)
DashPlaces(args) ==
    {p \in UNION {{<<i, j>> : j \in 1..Len(args[i])} : i \in 1..Len(args)} :
        args[p[1]][p[2]] = 45}

LooksLikeHex(args) ==
    /\ \A i \in 1..Len(args) : \A j \in 1..Len(args[i]) : HexOrDash(args[i][j])
    /\ Cardinality(DashPlaces(args)) <= 1

C10_PrimaryInterpretation ==
    ModeReturned =>
        /\ doNum \/ doChar
        /\ cmd.n => doNum
        /\ cmd.c => doChar
        /\ doText = cmd.t /\ doDesc = cmd.d /\ doUnic = cmd.u
        /\ doUNIC = cmd.U /\ doGrep = cmd.g
        /\ (pc = "render" \/ (pc = "exit" /\ fs.found)) =>
              interp = IF cmd.g THEN "argsAreRegexps"
                       ELSE IF doChar THEN "argsAreNumbers"
                       ELSE "argsAreChars"
        /\ pc \in {"getUnicode", "codes"} => interp = "none" /\ codes = <<>>

(* -g with -d: mode sniffs the patterns, and the search still builds the codes *)
C10_Witness ==
    /\ ModeReturned
    /\ cmd.g /\ cmd.d /\ ~cmd.n /\ ~cmd.c
    /\ doNum
    /\ interp = "argsAreRegexps"
    /\ pc = "exit" /\ status = 0

---------------------------------------------------------------------------
(* arguments for argsAreNumbers *)
\* "41"
num41 ==
    <<52, 49>>
\* "8-b"
num8b ==
    <<56, 45, 98>>
\* "b-8"
numBack ==
    <<98, 45, 56>>
\* "3f-41"
num3f41 ==
    <<51, 102, 45, 52, 49>>
\* "8-8"
numSame ==
    <<56, 45, 56>>
\* "zz"
numBad ==
    <<122, 122>>
NumTokens == {num41, num8b, numBack, num3f41, numSame, numBad}

InitNumbers ==
    InitWith(CmdLines({f \in Flags : ~f.g /\ ~f.u}, SeqsUpTo(NumTokens, MaxArgs)),
             {stdDisk})
SpecNumbers == InitNumbers /\ [][Next]_vars

(* a hex code point as the claims read it: hex digits, below 2^21 *)
IsHex(c) == c \in 48..57 \/ c \in 97..102 \/ c \in 65..70

HexDigit(c) ==
    IF c \in 48..57 THEN c - 48 ELSE IF c \in 97..102 THEN c - 87 ELSE c - 55

RECURSIVE HexValue(_)
HexValue(s) ==
    IF s = <<>> THEN 0
    ELSE 16 * HexValue(SubSeq(s, 1, Len(s) - 1)) + HexDigit(s[Len(s)])

IsCodePoint(s) ==
    /\ s # <<>>
    /\ Len(s) <= 6
    /\ \A i \in 1..Len(s) : IsHex(s[i])
    /\ HexValue(s) < 2097152

(* the two sides of a token a-b with one dash *)
Dashes(a) == {i \in 1..Len(a) : a[i] = 45}
Lo(a) == SubSeq(a, 1, (CHOOSE i \in Dashes(a) : TRUE) - 1)
Hi(a) == SubSeq(a, (CHOOSE i \in Dashes(a) : TRUE) + 1, Len(a))

IsRange(a) ==
    /\ Cardinality(Dashes(a)) = 1
    /\ IsCodePoint(Lo(a)) /\ IsCodePoint(Hi(a))

GoodRange(a) == IsRange(a) /\ HexValue(Lo(a)) <= HexValue(Hi(a))
BadRange(a) == IsRange(a) /\ HexValue(Lo(a)) > HexValue(Hi(a))
Point(a) == Dashes(a) = {} /\ IsCodePoint(a)

(* the code points a valid token stands for *)
Contribution(a) ==
    IF GoodRange(a)
    THEN [k \in 1..(HexValue(Hi(a)) - HexValue(Lo(a)) + 1) |-> HexValue(Lo(a)) + k - 1]
    ELSE <<HexValue(a)>>

RECURSIVE Contributions(_)
Contributions(args) ==
    IF args = <<>> THEN <<>>
    ELSE Contribution(Head(args)) \o Contributions(Tail(args))

(* C2: parsed by argsAreNumbers, every token a-b of valid hex code points    *)
(* with a <= b contributes the b - a + 1 code points a, a+1, ..., b, in      *)
(* that order, at its place among the arguments, and printRange is set.      *)
C2_RangeExpansion ==
    (/\ interp = "argsAreNumbers"
     /\ \A i \in 1..Len(cmd.args) : GoodRange(cmd.args[i]) \/ Point(cmd.args[i]))
    => /\ pc \in {"render", "exit"}
       /\ stderr = ""
       /\ codes = Contributions(cmd.args)
       /\ printRange <=> \E i \in 1..Len(cmd.args) : GoodRange(cmd.args[i])
       /\ \A i \in 1..Len(cmd.args) :
             GoodRange(cmd.args[i]) =>
                LET c == Contribution(cmd.args[i])
                    a == HexValue(Lo(cmd.args[i]))
                    b == HexValue(Hi(cmd.args[i]))
                IN  /\ Len(c) = b - a + 1
                    /\ c[1] = a /\ c[Len(c)] = b
                    /\ \A k \in 1..(Len(c) - 1) : c[k + 1] = c[k] + 1

(* 3f-41 after a single code point: three code points, 3f 40 41 *)
C2_Witness ==
    /\ interp = "argsAreNumbers"
    /\ cmd.args = <<num41, num3f41>>
    /\ codes = <<65, 63, 64, 65>>
    /\ printRange
    /\ pc = "exit" /\ status = 0

(* C3: when argsAreNumbers parses the arguments and one of them is a range   *)
(* a-b with a > b, valid tokens alone before it, the run ends in the usage   *)
(* error with exit status 2 and nothing on standard output, whatever the     *)
(* other arguments and the output flags.                                     *)
C3_InvalidRange ==
    (/\ interp = "argsAreNumbers"
     /\ \E i \in 1..Len(cmd.args) :
           /\ BadRange(cmd.args[i])
           /\ \A j \in 1..(i - 1) : GoodRange(cmd.args[j]) \/ Point(cmd.args[j]))
    => /\ pc = "exit"
       /\ status = 2
       /\ stderr = "usage"
       /\ stdout = <<>>

(* -d 8-b b-8: the valid range before b-8 leaves nothing on standard output *)
C3_Witness ==
    /\ interp = "argsAreNumbers"
    /\ cmd.args = <<num8b, numBack>>
    /\ cmd.d
    /\ pc = "exit" /\ status = 2 /\ stderr = "usage" /\ stdout = <<>>

(* the range rendering has written standard output *)
RangeRendered ==
    /\ pc = "exit" /\ status = 0
    /\ printRange
    /\ ~doDesc /\ ~doUnic /\ ~doUNIC /\ ~doText

(* the entry of the code point at position i, and where it starts *)
Entry(i) == fmtX4(codes[i]) \o <<32>> \o fmtC(codes[i])

RECURSIVE EntryStart(_)
EntryStart(i) == IF i = 1 THEN 0 ELSE EntryStart(i - 1) + Len(Entry(i - 1)) + 1

(* every entry in place, a line break after positions 3, 7, ..., a tab      *)
(* after the others, and a line break at the end                            *)
EntriesInPlace ==
    /\ \A i \in 1..Len(codes) :
          /\ SubSeq(stdout, EntryStart(i) + 1, EntryStart(i) + Len(Entry(i))) = Entry(i)
          /\ stdout[EntryStart(i) + Len(Entry(i)) + 1]
                = (IF (i - 1) % 4 = 3 THEN 10 ELSE 9)
    /\ Len(stdout) = EntryStart(Len(codes) + 1)
                        + (IF Len(codes) % 4 = 0 THEN 0 ELSE 1)
    /\ stdout # <<>> => stdout[Len(stdout)] = 10

(* the lines of standard output *)
OutLines == readLines(stdout)

(* every full line holds four entries: line k is entries 4k-3 .. 4k *)
FourPerLine ==
    /\ Len(OutLines) = (Len(codes) + 3) \div 4
    /\ \A k \in 1..(Len(codes) \div 4) :
          OutLines[k] = Entry(4 * k - 3) \o <<9>> \o Entry(4 * k - 2) \o <<9>>
                        \o Entry(4 * k - 1) \o <<9>> \o Entry(4 * k)

(* C8, as stated: in the range rendering every code point is a `hexcode     *)
(* char` entry, followed by a line break at positions 3, 7, ... and a tab   *)
(* otherwise, so that each full line holds 4 entries, and the output ends   *)
(* with a line break.                                                       *)
C8_AsStated == RangeRendered => EntriesInPlace /\ FourPerLine

(* C8, amended: the entries and separators are as stated and the output     *)
(* ends with a line break; each full line holds 4 entries when no code      *)
(* point of the sequence is U+000A, whose entry is itself a line break.     *)
C8_RangeRendering ==
    RangeRendered =>
        /\ EntriesInPlace
        /\ (\A i \in 1..Len(codes) : codes[i] # 10) => FourPerLine

(* 3f-41 twice: six entries, a full line of four and a line of two *)
C8_Witness ==
    /\ RangeRendered
    /\ cmd.args = <<num3f41, num3f41>>
    /\ Len(codes) = 6
    /\ Len(OutLines) = 2

---------------------------------------------------------------------------
(* arguments for argsAreChars *)
\* "AB"
chAB ==
    <<65, 66>>
\* "CD"
chCD ==
    <<67, 68>>
\* ""
chEmpty == <<>>
\* " "
chSpace ==
    <<32>>
\* "h"
chH ==
    <<104>>
CharTokens == {chAB, chCD, chEmpty, chSpace, chH}

InitChars ==
    InitWith(CmdLines({f \in Flags : ~f.u}, SeqsUpTo(CharTokens, MaxArgs)), {stdDisk})
SpecChars == InitChars /\ [][Next]_vars

(* where the characters of argument i start in the codes of argsAreChars,   *)
(* with gap code points between successive arguments                        *)
RECURSIVE ArgStart(_, _, _)
ArgStart(args, i, gap) ==
    IF i = 1 THEN 0 ELSE ArgStart(args, i - 1, gap) + Len(args[i - 1]) + gap

CharsInPlace(args, gap) ==
    /\ Len(codes) = ArgStart(args, Len(args) + 1, gap) - gap
    /\ \A i \in 1..Len(args) :
          /\ \A j \in 1..Len(args[i]) : codes[ArgStart(args, i, gap) + j] = args[i][j]
          /\ (gap = 1 /\ i < Len(args)) =>
                codes[ArgStart(args, i, gap) + Len(args[i]) + 1] = 32

(* C7: the codes of argsAreChars are the characters of the arguments in     *)
(* argument order; with -t one space follows each argument but the last     *)
(* (n - 1 spaces for n arguments, none trailing), without -t no space is    *)
(* inserted.                                                                *)
C7_CharsFromArgs ==
    interp = "argsAreChars" =>
        /\ pc \in {"render", "exit"}
        /\ CharsInPlace(cmd.args, IF cmd.t THEN 1 ELSE 0)

(* -t AB CD: A B space C D *)
C7_Witness ==
    /\ interp = "argsAreChars"
    /\ cmd.t
    /\ cmd.args = <<chAB, chCD>>
    /\ codes = <<65, 66, 32, 67, 68>>
    /\ pc = "exit" /\ status = 0

---------------------------------------------------------------------------
(* patterns and lines for argsAreRegexps; txtBad has no separator *)
\* "r a"
reLetterA ==
    <<114, 32, 97>>
\* "letter"
reLetter ==
    <<108, 101, 116, 116, 101, 114>>
\* "004."
reKey ==
    <<48, 48, 52, 46>>
\* "(le"
reOpen ==
    <<40, 108, 101>>
Patterns == {reLetterA, reLetter, reKey, reOpen}

\* "letter a"
txtBad ==
    <<108, 101, 116, 116, 101, 114, 32, 97>>
GrepLines == {txtA, txtB, txtBad}

InitGrep ==
    InitWith(CmdLines({f \in Flags : f.g /\ ~f.u /\ ~f.n /\ ~f.c},
                      SeqsUpTo(Patterns, MaxArgs)),
             {[found |-> TRUE, unicodeTxt |-> x, unicodeDataTxt |-> stdData] :
                 x \in Files(GrepLines)})
SpecGrep == InitGrep /\ [][Next]_vars

(* the lines of unicode.txt, and the lines a pattern matches, by number *)
TxtLines == readLines(fs.unicodeTxt)

Matched(a) == {i \in 1..Len(TxtLines) : MatchString(regexpCompile(a).re, TxtLines[i])}

(* the code point a line starts with *)
KeyOf(line) == HexValue(SubSeq(line, 1, IndexAny(line, {9, 59})))

(* where the code points of pattern i start in codes *)
RECURSIVE PatternStart(_)
PatternStart(i) ==
    IF i = 1 THEN 0 ELSE PatternStart(i - 1) + Cardinality(Matched(cmd.args[i - 1]))

(* C9: the codes of argsAreRegexps are, pattern by pattern in argument      *)
(* order, the code points of the lines the pattern matches, in file order;  *)
(* a line that k patterns match gives its code point k times, a line no     *)
(* pattern matches gives nothing.                                           *)
C9_RegexpOrder ==
    (interp = "argsAreRegexps" /\ (pc = "render" \/ (pc = "exit" /\ status = 0))) =>
        /\ Len(codes) = PatternStart(Len(cmd.args) + 1)
        /\ \A i \in 1..Len(cmd.args) : \A l \in Matched(cmd.args[i]) :
              codes[PatternStart(i)
                    + Cardinality({m \in Matched(cmd.args[i]) : m <= l})]
                 = KeyOf(TxtLines[l])

(* "letter" then "r a" over the lines of A and B: 41 42, then 41 again *)
C9_Witness ==
    /\ interp = "argsAreRegexps"
    /\ cmd.args = <<reLetter, reLetterA>>
    /\ TxtLines = <<txtA, txtB>>
    /\ codes = <<65, 66, 65>>
    /\ pc = "exit" /\ status = 0

---------------------------------------------------------------------------
(* code points to describe *)
\* "41"
code41 ==
    <<52, 49>>
\* "42"
code42 ==
    <<52, 50>>
\* "28"
code28 ==
    <<50, 56>>
CodeTokens == {code41, code42, code28}

(* one rendering at a time: -t, none, -d, -u, -U, -d -U *)
DescFlags ==
    {f \in Flags : /\ ~f.g /\ ~f.n /\ ~f.c
                   /\ f.t => ~(f.d \/ f.u \/ f.U)
                   /\ f.u => ~(f.d \/ f.U)}

TxtPool == {txtA, txtParen, dataA}
DataPool == {dataA, dataB, dataBad}

InitDesc ==
    InitWith(CmdLines(DescFlags, SeqsUpTo(CodeTokens, MaxArgs)),
             {[found |-> TRUE, unicodeTxt |-> x, unicodeDataTxt |-> stdData] :
                 x \in Files(TxtPool)}
             \cup {[found |-> TRUE, unicodeTxt |-> stdTxt, unicodeDataTxt |-> x] :
                 x \in Files(DataPool)})
SpecDesc == InitDesc /\ [][Next]_vars

(* the database desc reads, and the record of a code point in it: the text  *)
(* after the first separator of the last line of that code point            *)
DbLines == readLines(IF doDesc THEN fs.unicodeTxt ELSE fs.unicodeDataTxt)

WellFormed(line) ==
    /\ IndexAny(line, {9, 59}) >= 0
    /\ IsCodePoint(SubSeq(line, 1, IndexAny(line, {9, 59})))

LinesOf(c) == {i \in 1..Len(DbLines) : KeyOf(DbLines[i]) = c}

HasRecord(c) == LinesOf(c) # {}

RecordOf(c) ==
    IF ~HasRecord(c) THEN <<>>
    ELSE LET l == DbLines[CHOOSE i \in LinesOf(c) : \A j \in LinesOf(c) : j <= i]
         IN  SubSeq(l, IndexAny(l, {9, 59}) + 2, Len(l))

FieldCount(rec) == Cardinality({i \in 1..Len(rec) : rec[i] = 59}) + 1

Field(rec, k) == IF k <= FieldCount(rec) THEN Split(rec, 59)[k] ELSE <<>>

Lower(str) == [i \in 1..Len(str) |-> IF str[i] \in 65..90 THEN str[i] + 32 ELSE str[i]]

(* what follows the notation of a code point and a space *)
Body(c, kind) ==
    LET rec == RecordOf(c)
        full == IF FieldCount(rec) = 14
                THEN dumpFields(Split(rec, 59), 1, <<>>)
                ELSE rec \o cantPrint \o <<49, 52>> \o fieldsGot
                         \o fmtD(FieldCount(rec)) \o <<10>>
    IN  CASE kind = "full" -> full
          [] kind = "verbatim" -> rec \o <<10>>
          [] kind = "fullOrEmpty" -> IF HasRecord(c) THEN full ELSE <<10>>
          [] kind = "names" ->
                Lower(Field(rec, 1))
                \o (IF Field(rec, 10) # <<>>
                    THEN <<59, 32>> \o Lower(Field(rec, 10)) ELSE <<>>)
                \o <<10>>

RECURSIVE Blocks(_, _)
Blocks(cs, kind) ==
    IF cs = <<>> THEN <<>>
    ELSE fmtSharpU(Head(cs)) \o <<32>> \o Body(Head(cs), kind) \o Blocks(Tail(cs), kind)

(* the number of line breaks of a text *)
LineBreaks(str) == Cardinality({i \in 1..Len(str) : str[i] = 10})

(* C4: with -U, over a database whose lines all have a separator and a      *)
(* hex code point, rendering never ends the run: it exits with status 0,    *)
(* a code point whose record has not 14 fields gives one line, the record   *)
(* and the mismatch, and the code points before and after it are rendered   *)
(* as they are without it.                                                  *)
C4_SchemaMismatch ==
    [][(/\ pc = "render"
        /\ doUNIC
        /\ \A i \in 1..Len(DbLines) : WellFormed(DbLines[i]))
       => /\ status' = 0
          /\ stdout' = Blocks(codes, "full")
          /\ \A i \in 1..Len(codes) :
                FieldCount(RecordOf(codes[i])) # 14 =>
                    LineBreaks(Body(codes[i], "full")) = 1]_vars

(* -U 42 41: the short record of 42 gives its line, 41 is rendered after it *)
C4_Witness ==
    /\ pc = "exit" /\ status = 0
    /\ doUNIC /\ ~doDesc
    /\ cmd.args = <<code42, code41>>
    /\ FieldCount(RecordOf(66)) = 2
    /\ FieldCount(RecordOf(65)) = 14
    /\ stdout = Blocks(<<66>>, "full") \o Blocks(<<65>>, "full")
    /\ LineBreaks(Blocks(<<66>>, "full")) = 1

(* C5, as stated: a code point without a record is rendered, at each of the *)
(* three levels, as its notation and an empty description, without an       *)
(* error.                                                                   *)
C5_AsStated ==
    (pc = "exit" /\ status = 0 /\ (doDesc \/ doUnic \/ doUNIC)) =>
        stdout = Blocks(codes, IF doUNIC THEN "fullOrEmpty" ELSE "verbatim")

(* C6, as stated: with -d the line of a code point with a record is the     *)
(* notation, a space, the lowercased short name and, when the Unicode 1.0   *)
(* name is not empty, "; " and that name lowercased, then a line break.     *)
(* Stated for the code points whose record has the 14 fields.               *)
C6_AsStated ==
    (/\ pc = "exit" /\ status = 0 /\ doDesc /\ ~doUNIC
     /\ \A i \in 1..Len(codes) : FieldCount(RecordOf(codes[i])) = 14)
    => stdout = Blocks(codes, "names")

(* C6, amended: with -d and without -U the line of a code point with a      *)
(* record in unicode.txt is the notation, a space, the record as the file   *)
(* has it (all that follows the first tab or semicolon of its line,         *)
(* neither lowercased nor cut to fields), then a line break.                *)
C6_SimpleDescription ==
    (pc = "exit" /\ status = 0 /\ doDesc /\ ~doUNIC) =>
        stdout = Blocks(codes, "verbatim")

(* -d 41 over a unicode.txt that has the line of UnicodeData.txt for 0041 *)
C6_Witness ==
    /\ pc = "exit" /\ status = 0
    /\ doDesc /\ ~doUNIC
    /\ cmd.args = <<code41>>
    /\ DbLines = <<dataA>>
    /\ stdout = fmtSharpU(65) \o <<32>> \o SubSeq(dataA, 6, Len(dataA)) \o <<10>>

---------------------------------------------------------------------------
Init == InitMode \/ InitNumbers \/ InitChars \/ InitGrep \/ InitDesc

Spec == Init /\ [][Next]_vars

=============================================================================
